---- MODULE Spec2Model ----
(***************************************************************************)
(* State-machine model of src/index.py: a Flask service that normalises    *)
(* and validates a YouTube URL, asks yt-dlp for the video's info, selects  *)
(* one playable format and answers with JSON.                              *)
(*                                                                         *)
(* Strings are TLA+ strings handled character by character (SubSeq, \o).   *)
(* Python values that may be None are tagged records, Python dicts are     *)
(* functions whose DOMAIN is the set of keys that are present.             *)
(***************************************************************************)
EXTENDS Integers, Sequences, FiniteSets, TLC

VARIABLES request, ydl, pc, response, calls

vars == <<request, ydl, pc, response, calls>>

(***************************************************************************)
(* Bounds of the model.                                                    *)
(***************************************************************************)
\* longest candidate list the collaborator returns in SpecSelect
MaxFormats == 2
\* longest candidate list the collaborator returns in Spec
MaxPipelineFormats == 1
\* most fragments a DownloadError message is made of
MaxMsgParts == 2
\* longest video id of the URLs given to the validator
MaxIdLen == 2
\* most percent-encoding layers wrapped around a URL given to clean_url
MaxEncodings == 2

(***************************************************************************)
(* Python values.                                                          *)
(***************************************************************************)
PyNone == [t |-> "None"]
PyInt(n) == [t |-> "int", v |-> n]
PyStr(s) == [t |-> "str", v |-> s]
PyDict(d) == [t |-> "dict", v |-> d]
PyList(l) == [t |-> "list", v |-> l]

\* bool(x) as Python's `not x` / `x and ...` evaluate it
Truthy(x) ==
    CASE x.t = "None" -> FALSE
      [] x.t = "int" -> x.v # 0
      [] x.t = "str" -> x.v # ""
      [] x.t = "dict" -> DOMAIN x.v # {}
      [] x.t = "list" -> x.v # <<>>

\* d.get(k): the value under k, None when the key is missing
Get(d, k) == IF k \in DOMAIN d THEN d[k] ELSE PyNone

\* d.get(k, default)
GetOr(d, k, default) == IF k \in DOMAIN d THEN d[k] ELSE default

(***************************************************************************)
(* Characters.                                                             *)
(***************************************************************************)
CharAt(s, i) == SubSeq(s, i, i)

Drop(s, n) == SubSeq(s, n + 1, Len(s))

UpperLetters == "ABCDEFGHIJKLMNOPQRSTUVWXYZ"
LowerLetters == "abcdefghijklmnopqrstuvwxyz"
Digits == "0123456789"
HexDigits == "0123456789abcdef"

\* the characters of a string, and each character's position in it
Chars(s) == {CharAt(s, i) : i \in 1..Len(s)}

Positions(s) == [c \in Chars(s) |-> CHOOSE i \in 1..Len(s) : CharAt(s, i) = c]

UpperPositions == Positions(UpperLetters)
HexPositions == Positions(HexDigits)
WordChars == Chars(UpperLetters) \cup Chars(LowerLetters) \cup Chars(Digits) \cup {"_"}

\* str.lower() of one ASCII character
LowerChar(c) ==
    IF c \in DOMAIN UpperPositions
    THEN CharAt(LowerLetters, UpperPositions[c])
    ELSE c

IsHex(c) == LowerChar(c) \in DOMAIN HexPositions

HexVal(c) == HexPositions[LowerChar(c)] - 1

\* code points 35..91 and 97..126, in order
Ascii35to91 == "#$%&'()*+,-./0123456789:;<=>?@ABCDEFGHIJKLMNOPQRSTUVWXYZ["
Ascii97to126 == "abcdefghijklmnopqrstuvwxyz{|}~"

\* what a decoded byte outside the table above turns into: one character
\* that is no character of any URL or pattern of the model
Replacement == "\t"

\* the character of a decoded byte
Chr(code) ==
    CASE code \in 35..91 -> CharAt(Ascii35to91, code - 34)
      [] code \in 97..126 -> CharAt(Ascii97to126, code - 96)
      [] code = 32 -> " "
      [] code = 33 -> "!"
      [] code = 93 -> "]"
      [] code = 94 -> "^"
      [] code = 95 -> "_"
      [] OTHER -> Replacement

(***************************************************************************)
(* clean_url: urllib.parse.unquote, then the scheme.                       *)
(***************************************************************************)
\* a "%" followed by two hex digits at the head of s
EscapeAtHead(s) ==
    /\ Len(s) >= 3
    /\ CharAt(s, 1) = "%"
    /\ IsHex(CharAt(s, 2))
    /\ IsHex(CharAt(s, 3))

\* one decoding pass, left to right; a "%" that starts no escape is kept
RECURSIVE unquote(_)
unquote(s) ==
    IF s = "" THEN ""
    ELSE IF EscapeAtHead(s)
         THEN Chr(16 * HexVal(CharAt(s, 2)) + HexVal(CharAt(s, 3)))
                \o unquote(Drop(s, 3))
         ELSE CharAt(s, 1) \o unquote(Drop(s, 1))

\* str.startswith(prefix), case-sensitive
StartsWith(s, prefix) ==
    Len(s) >= Len(prefix) /\ SubSeq(s, 1, Len(prefix)) = prefix

\* clean_url without the test of line 48: the scheme is always prepended
clean_url_always_prepends(url) == "https://" \o unquote(url)

clean_url(url) ==
    LET decoded == unquote(url)
    IN IF ~(StartsWith(decoded, "http://") \/ StartsWith(decoded, "https://"))
       THEN "https://" \o decoded
       ELSE decoded

(***************************************************************************)
(* is_valid_youtube_url: re.match of five patterns, re.IGNORECASE.         *)
(* A pattern is a sequence of elements: a literal, an optional group, or   *)
(* [\w-]+.  Matching computes the set of positions a match can end at,     *)
(* which is what a backtracking matcher explores.                          *)
(***************************************************************************)
Lit(s) == [k |-> "lit", s |-> s]
Opt(p) == [k |-> "opt", p |-> p]
IdPlus == [k |-> "idplus"]

\* (?:https?://)?
SchemeGroup == Opt(<<Lit("http"), Opt(<<Lit("s")>>), Lit("://")>>)
\* (?:www\.)?
WwwGroup == Opt(<<Lit("www.")>>)

\* the pattern list without its last entry (shorts)
youtube_patterns_without_shorts ==
    << <<SchemeGroup, WwwGroup, Lit("youtube.com/watch?v="), IdPlus>>,
       <<SchemeGroup, WwwGroup, Lit("youtu.be/"), IdPlus>>,
       <<SchemeGroup, WwwGroup, Lit("youtube.com/embed/"), IdPlus>>,
       <<SchemeGroup, WwwGroup, Lit("youtube.com/v/"), IdPlus>> >>

youtube_patterns ==
    << <<SchemeGroup, WwwGroup, Lit("youtube.com/watch?v="), IdPlus>>,
       <<SchemeGroup, WwwGroup, Lit("youtu.be/"), IdPlus>>,
       <<SchemeGroup, WwwGroup, Lit("youtube.com/embed/"), IdPlus>>,
       <<SchemeGroup, WwwGroup, Lit("youtube.com/v/"), IdPlus>>,
       <<SchemeGroup, WwwGroup, Lit("youtube.com/shorts/"), IdPlus>> >>

\* \w of a str pattern, and "-"
IsIdChar(c) == c \in WordChars \/ c = "-"

\* the literal, compared ignoring case, at offset p of s
LitAt(lit, s, p) ==
    /\ p + Len(lit) <= Len(s)
    /\ \A i \in 1..Len(lit) : LowerChar(CharAt(s, p + i)) = LowerChar(CharAt(lit, i))

\* the offsets q > p such that s[p+1..q] are all id characters
IdEnds(s, p) ==
    {q \in (p + 1)..Len(s) : \A i \in (p + 1)..q : IsIdChar(CharAt(s, i))}

\* the offsets at which a match of the pattern started at an offset of
\* `starts` can end
RECURSIVE MatchEnds(_, _, _)
MatchEnds(pattern, s, starts) ==
    IF pattern = <<>> THEN starts
    ELSE LET e == Head(pattern)
             after ==
                 CASE e.k = "lit" ->
                        {p + Len(e.s) : p \in {q \in starts : LitAt(e.s, s, q)}}
                   [] e.k = "opt" -> starts \cup MatchEnds(e.p, s, starts)
                   [] e.k = "idplus" -> UNION {IdEnds(s, p) : p \in starts}
         IN MatchEnds(Tail(pattern), s, after)

\* re.match(pattern, url, re.IGNORECASE) is not None
ReMatch(pattern, url) == MatchEnds(pattern, url, {0}) # {}

is_valid_youtube_url(url) ==
    \E i \in 1..Len(youtube_patterns) : ReMatch(youtube_patterns[i], url)

(***************************************************************************)
(* The format selection of extract_video_info.  A format is a dict; the    *)
(* keys it may lack are the ones the code reads with .get.                 *)
(***************************************************************************)
\* the ceiling of lines 99 and 107
MaxHeight == 720

\* the slice bound of line 127
DescriptionLimit == 500

\* lines 95-101: the scan for a combined mp4.  `None <= 720` raises
\* TypeError, which leaves the handler through `except Exception`.
RECURSIVE Phase1(_)
Phase1(formats) ==
    IF formats = <<>> THEN [raised |-> FALSE, video_url |-> PyNone]
    ELSE LET fmt == Head(formats)
             height == GetOr(fmt, "height", PyInt(0))
         IN IF /\ Get(fmt, "ext") = PyStr("mp4")
               /\ Get(fmt, "vcodec") # PyStr("none")
               /\ Get(fmt, "acodec") # PyStr("none")
            THEN IF height.t # "int"
                 THEN [raised |-> TRUE, video_url |-> PyNone]
                 ELSE IF height.v <= MaxHeight
                      THEN [raised |-> FALSE, video_url |-> Get(fmt, "url")]
                      ELSE Phase1(Tail(formats))
            ELSE Phase1(Tail(formats))

\* the key of max() without the ceiling on the height
SortKey_uncapped(x) ==
    << IF Truthy(Get(x, "height")) THEN GetOr(x, "height", PyInt(0)).v ELSE 0,
       IF Get(x, "ext") = PyStr("mp4") THEN 1 ELSE 0 >>

\* lines 106-109: the key of max()
SortKey(x) ==
    << IF Truthy(Get(x, "height")) /\ Get(x, "height").v <= MaxHeight
       THEN GetOr(x, "height", PyInt(0)).v
       ELSE 0,
       IF Get(x, "ext") = PyStr("mp4") THEN 1 ELSE 0 >>

\* tuple comparison a > b
KeyGreater(a, b) == a[1] > b[1] \/ (a[1] = b[1] /\ a[2] > b[2])

\* max(formats, key=...): the index of the first element whose key no
\* other element exceeds (max keeps its candidate unless a later key is
\* strictly greater)
RECURSIVE MaxIndexFrom(_, _, _)
MaxIndexFrom(formats, best, i) ==
    IF i > Len(formats) THEN best
    ELSE IF KeyGreater(SortKey(formats[i]), SortKey(formats[best]))
         THEN MaxIndexFrom(formats, i, i + 1)
         ELSE MaxIndexFrom(formats, best, i + 1)

MaxIndex(formats) == MaxIndexFrom(formats, 1, 2)

\* line 104: whether the second phase runs
Phase2Runs(video_url, formats) == ~Truthy(video_url) /\ formats # <<>>

\* lines 91-110: video_url after both phases
SelectVideoUrl(formats) ==
    LET first == Phase1(formats)
    IN IF first.raised THEN first
       ELSE IF Phase2Runs(first.video_url, formats)
            THEN [raised |-> FALSE,
                  video_url |-> Get(formats[MaxIndex(formats)], "url")]
            ELSE first

(***************************************************************************)
(* Responses: (body, status) as jsonify returns them.                      *)
(***************************************************************************)
ErrorResponse(status, kind, message) ==
    [status |-> status, body |-> [error |-> kind, message |-> message]]

\* line 127
Description(info) ==
    IF Truthy(Get(info, "description"))
    THEN LET d == GetOr(info, "description", PyStr("")).v
         IN PyStr(SubSeq(d, 1, IF Len(d) < DescriptionLimit
                                THEN Len(d) ELSE DescriptionLimit))
    ELSE PyNone

\* lines 119-129
response_data(info, video_url, clean_video_url) ==
    [video_url |-> video_url,
     title |-> GetOr(info, "title", PyStr("Video sin título")),
     duration |-> Get(info, "duration"),
     thumbnail |-> Get(info, "thumbnail"),
     uploader |-> Get(info, "uploader"),
     view_count |-> Get(info, "view_count"),
     upload_date |-> Get(info, "upload_date"),
     description |-> Description(info),
     original_url |-> PyStr(clean_video_url)]

\* `x in error_msg`
Contains(s, x) ==
    \E i \in 0..(Len(s) - Len(x)) : SubSeq(s, i + 1, i + Len(x)) = x

\* the classification with "Private video" tested first
DownloadErrorResponse_private_first(error_msg) ==
    IF Contains(error_msg, "Private video")
    THEN ErrorResponse(403, "private_video", "El video es privado")
    ELSE IF Contains(error_msg, "Video unavailable")
    THEN ErrorResponse(404, "video_unavailable",
                       "El video no está disponible (puede ser privado, eliminado o restringido por región)")
    ELSE IF Contains(error_msg, "Sign in to confirm your age")
    THEN ErrorResponse(403, "age_restricted", "El video tiene restricción de edad")
    ELSE ErrorResponse(500, "extraction_error",
                       "Error al extraer el video: " \o error_msg)

\* lines 134-158
DownloadErrorResponse(error_msg) ==
    IF Contains(error_msg, "Video unavailable")
    THEN ErrorResponse(404, "video_unavailable",
                       "El video no está disponible (puede ser privado, eliminado o restringido por región)")
    ELSE IF Contains(error_msg, "Sign in to confirm your age")
    THEN ErrorResponse(403, "age_restricted", "El video tiene restricción de edad")
    ELSE IF Contains(error_msg, "Private video")
    THEN ErrorResponse(403, "private_video", "El video es privado")
    ELSE ErrorResponse(500, "extraction_error",
                       "Error al extraer el video: " \o error_msg)

\* lines 160-165, 184-189, 240-245
InternalError == ErrorResponse(500, "internal_error", "Error interno del servidor")

(***************************************************************************)
(* extract_video_info.  `url` is a Python value (the POST route passes     *)
(* whatever the JSON body holds under "url"); `outcome` is what            *)
(* ydl.extract_info does when it is called: it returns an info dict or     *)
(* None, raises yt_dlp.DownloadError with a message, or raises something   *)
(* else.  The result is the response and the components run, in order.     *)
(***************************************************************************)
Handled(resp, trace) == [response |-> resp, calls |-> trace]

\* the success path without the test of line 112
AfterExtraction_unchecked(info, clean_video_url, trace) ==
    IF ~Truthy(info)
    THEN Handled(ErrorResponse(400, "extraction_failed",
                               "No se pudo extraer información del video"), trace)
    ELSE LET formats == GetOr(info.v, "formats", <<>>)
             selected == SelectVideoUrl(formats)
         IN IF selected.raised
            THEN Handled(InternalError, Append(trace, "select"))
            ELSE Handled([status |-> 200,
                          body |-> response_data(info.v, selected.video_url,
                                                 clean_video_url)],
                         trace \o <<"select", "response_data">>)

\* lines 84-132, after extract_info has returned `info`
AfterExtraction(info, clean_video_url, trace) ==
    IF ~Truthy(info)
    THEN Handled(ErrorResponse(400, "extraction_failed",
                               "No se pudo extraer información del video"), trace)
    ELSE LET formats == GetOr(info.v, "formats", <<>>)
             selected == SelectVideoUrl(formats)
         IN IF selected.raised
            THEN Handled(InternalError, Append(trace, "select"))
            ELSE IF ~Truthy(selected.video_url)
            THEN Handled(ErrorResponse(400, "no_video_url",
                                       "No se pudo obtener URL de video reproducible"),
                         Append(trace, "select"))
            ELSE Handled([status |-> 200,
                          body |-> response_data(info.v, selected.video_url,
                                                 clean_video_url)],
                         trace \o <<"select", "response_data">>)

\* lines 80-82 and the except clauses of lines 134-165
Extraction(outcome, clean_video_url, trace) ==
    CASE outcome.kind = "DownloadError" ->
           Handled(DownloadErrorResponse(outcome.msg), trace)
      [] outcome.kind = "Exception" -> Handled(InternalError, trace)
      [] outcome.kind = "returns" ->
           AfterExtraction(outcome.info, clean_video_url, trace)

\* the handler without the validation of lines 74-78
extract_video_info_unvalidated(url, outcome) ==
    IF url.t # "str"
    THEN Handled(InternalError, <<"clean_url">>)
    ELSE Extraction(outcome, clean_url(url.v),
                    <<"clean_url", "is_valid_youtube_url", "extract_info">>)

\* lines 63-165
extract_video_info(url, outcome) ==
    IF url.t # "str"
    THEN \* unquote raises TypeError on a value that is no string
         Handled(InternalError, <<"clean_url">>)
    ELSE LET clean_video_url == clean_url(url.v)
         IN IF ~is_valid_youtube_url(clean_video_url)
            THEN Handled(ErrorResponse(400, "invalid_url",
                                       "La URL proporcionada no es una URL válida de YouTube"),
                         <<"clean_url", "is_valid_youtube_url">>)
            ELSE Extraction(outcome, clean_video_url,
                            <<"clean_url", "is_valid_youtube_url", "extract_info">>)

(***************************************************************************)
(* extract_video_info_post.                                                *)
(***************************************************************************)
\* line 174: what request.get_json() does.  A body that parses is returned
\* as its value; a request without a body makes Flask either return None
\* (no JSON content type, Flask before 2.1) or raise an HTTPException (415
\* or 400), depending on the Flask version and the Content-Type header.
get_json(body) ==
    IF body.kind = "absent"
    THEN {[raised |-> FALSE, data |-> PyNone], [raised |-> TRUE, data |-> PyNone]}
    ELSE {[raised |-> FALSE, data |-> body.value]}

\* `'url' not in data` of line 175: "absent", "present", or "TypeError"
\* (an int is not iterable)
UrlMembership(data) ==
    CASE data.t = "dict" -> IF "url" \in DOMAIN data.v THEN "present" ELSE "absent"
      [] data.t = "list" ->
           IF \E i \in 1..Len(data.v) : data.v[i] = PyStr("url")
           THEN "present" ELSE "absent"
      [] data.t = "str" -> IF Contains(data.v, "url") THEN "present" ELSE "absent"
      [] OTHER -> "TypeError"

MissingUrl == ErrorResponse(400, "missing_url", "Falta el parámetro URL en el body JSON")

\* lines 173-189, for one outcome of get_json
extract_video_info_post(parsed, outcome) ==
    IF parsed.raised THEN Handled(InternalError, <<>>)
    ELSE IF ~Truthy(parsed.data) THEN Handled(MissingUrl, <<>>)
    ELSE IF UrlMembership(parsed.data) = "TypeError" THEN Handled(InternalError, <<>>)
    ELSE IF UrlMembership(parsed.data) = "absent" THEN Handled(MissingUrl, <<>>)
    ELSE IF parsed.data.t # "dict"
    THEN \* data['url'] on a list or a str raises TypeError
         Handled(InternalError, <<>>)
    ELSE extract_video_info(parsed.data.v["url"], outcome)

(***************************************************************************)
(* get_available_formats.                                                  *)
(***************************************************************************)
\* lines 210-219
FormatEntry(fmt) ==
    [format_id |-> Get(fmt, "format_id"),
     ext |-> Get(fmt, "ext"),
     resolution |-> Get(fmt, "resolution"),
     fps |-> Get(fmt, "fps"),
     vcodec |-> Get(fmt, "vcodec"),
     acodec |-> Get(fmt, "acodec"),
     filesize |-> Get(fmt, "filesize"),
     url |-> Get(fmt, "url")]

\* lines 226-231; the message carries str(e), which the model leaves out
FormatsError == ErrorResponse(500, "formats_error", "Error obteniendo formatos")

\* lines 196-231
get_available_formats(url, outcome) ==
    LET clean_video_url == clean_url(url.v)
        trace == <<"clean_url", "is_valid_youtube_url", "extract_info">>
    IN IF ~is_valid_youtube_url(clean_video_url)
       THEN Handled(ErrorResponse(400, "invalid_url",
                                  "La URL proporcionada no es una URL válida de YouTube"),
                    <<"clean_url", "is_valid_youtube_url">>)
       ELSE IF outcome.kind # "returns" THEN Handled(FormatsError, trace)
       ELSE IF outcome.info.t # "dict"
       THEN \* None.get raises AttributeError
            Handled(FormatsError, trace)
       ELSE LET formats == GetOr(outcome.info.v, "formats", <<>>)
            IN Handled([status |-> 200,
                        body |-> [title |-> Get(outcome.info.v, "title"),
                                  formats |-> [i \in 1..Len(formats) |->
                                                 FormatEntry(formats[i])]]],
                       trace)

(***************************************************************************)
(* Inputs: what a client sends and what the collaborator answers.          *)
(***************************************************************************)
\* a format dict: the keys in `keys` of the full dict
Restrict(d, keys) == [k \in keys |-> d[k]]

\* every candidate has a playback URL of its own
PlaybackUrl(i) == "https://cdn.example/" \o CharAt(Digits, i + 1)

Heights == {PyNone, PyInt(360), PyInt(720), PyInt(1080)}

\* the candidates the collaborator may put at position i of SpecSelect's
\* lists: "height" and "url" may be missing, "height" may be None
Formats(i) ==
    {Restrict([ext |-> PyStr(e), vcodec |-> PyStr(c[1]), acodec |-> PyStr(c[2]),
               height |-> h, url |-> PyStr(PlaybackUrl(i))], keys) :
        e \in {"mp4", "webm"},
        c \in {<<"avc1", "mp4a">>, <<"avc1", "none">>, <<"none", "mp4a">>},
        h \in Heights,
        keys \in {{"ext", "vcodec", "acodec", "height", "url"},
                  {"ext", "vcodec", "acodec", "height"},
                  {"ext", "vcodec", "acodec", "url"},
                  {"ext", "vcodec", "acodec"}}}

\* the candidates of Spec's lists: combined mp4 or video-only webm
PipelineFormats(i) ==
    {Restrict([ext |-> PyStr(e[1]), vcodec |-> PyStr("avc1"), acodec |-> PyStr(e[2]),
               height |-> h, url |-> u], keys) :
        e \in {<<"mp4", "mp4a">>, <<"webm", "none">>},
        h \in {PyNone, PyInt(360), PyInt(1080)},
        u \in {PyStr(""), PyStr(PlaybackUrl(i))},
        keys \in {{"ext", "vcodec", "acodec", "height", "url"},
                  {"ext", "vcodec", "acodec", "height"}}}

RECURSIVE PipelineListsOfLen(_)
PipelineListsOfLen(n) ==
    IF n = 0 THEN {<<>>}
    ELSE {Append(l, f) : l \in PipelineListsOfLen(n - 1), f \in PipelineFormats(n)}

PipelineLists == UNION {PipelineListsOfLen(n) : n \in 0..MaxPipelineFormats}

Returns(info) == [kind |-> "returns", info |-> info]
Raises(msg) == [kind |-> "DownloadError", msg |-> msg]
RaisesOther == [kind |-> "Exception"]

Metadata == [title |-> PyStr("Big Buck Bunny"), duration |-> PyInt(596),
             description |-> PyStr("A short film")]

\* info dicts: with and without metadata, with and without "formats"
Infos(lists) ==
    {PyDict(Restrict(Metadata @@ ("formats" :> l), keys)) :
        l \in lists,
        keys \in {{"title", "duration", "description", "formats"}, {"formats"}}}
    \cup {PyDict(Restrict(Metadata, {"title"})), PyDict(<<>>), PyNone}

MsgParts ==
    {"Private video", "Video unavailable", "Sign in to confirm your age",
     "video unavailable", "ERROR: [youtube] abc: ", ". ", "This video is private",
     "HTTP Error 403: Forbidden"}

RECURSIVE MessagesOfLen(_)
MessagesOfLen(n) ==
    IF n = 0 THEN {""}
    ELSE {m \o part : m \in MessagesOfLen(n - 1), part \in MsgParts}

Messages == UNION {MessagesOfLen(n) : n \in 0..MaxMsgParts}

ValidUrl == "https://www.youtube.com/watch?v=dQw4w9WgXcQ"

PipelineUrls ==
    {ValidUrl, "youtu.be/abc-1", "https%3A%2F%2Fyoutu.be%2Fabc", "http://youtube.com/embed/a_b",
     "YOUTUBE.com/shorts/x%2541", "HTTP://youtube.com/v/a", "m.youtube.com/watch?v=a",
     "https://vimeo.com/123", "youtube.com", "https://youtube.com/watch?v=", ""}

PipelineOutcomes ==
    {Returns(i) : i \in Infos(PipelineLists)}
    \cup {Raises(m) : m \in {"ERROR: Video unavailable", "ERROR: Private video",
                             "HTTP Error 403: Forbidden"}}
    \cup {RaisesOther}

Absent == [kind |-> "absent"]
Json(v) == [kind |-> "json", value |-> v]

Bodies ==
    {Absent, Json(PyNone), Json(PyDict(<<>>)), Json(PyDict([video |-> PyStr(ValidUrl)])),
     Json(PyInt(0)), Json(PyInt(5)), Json(PyList(<<PyStr("url")>>)),
     Json(PyList(<<PyStr(ValidUrl)>>)), Json(PyStr("url")),
     Json(PyDict([url |-> PyNone]))}
    \cup {Json(PyDict([url |-> PyStr(u)])) : u \in PipelineUrls}

Clock == {0, 1}

NoResponse == [status |-> 0]

(***************************************************************************)
(* The state machine: a request is received, then its handler answers.     *)
(* Requests share no state, so a behaviour is one request.                 *)
(***************************************************************************)
Received(requests, outcomes) ==
    /\ request \in requests
    /\ ydl \in outcomes
    /\ pc = "received"
    /\ response = NoResponse
    /\ calls = <<>>

Respond(result) ==
    /\ response' = result.response
    /\ calls' = result.calls
    /\ pc' = "responded"
    /\ UNCHANGED <<request, ydl>>

GetRequests(route, urls) == {[route |-> route, url |-> u] : u \in urls}

PostRequests == {[route |-> "POST /extract", body |-> b] : b \in Bodies}

\* GET /extract/<path:url>
GetExtract ==
    /\ pc = "received"
    /\ request.route = "GET /extract"
    /\ Respond(extract_video_info(PyStr(request.url), ydl))

\* POST /extract
PostExtract ==
    /\ pc = "received"
    /\ request.route = "POST /extract"
    /\ \E parsed \in get_json(request.body) :
          Respond(extract_video_info_post(parsed, ydl))

\* GET /formats/<path:url>
GetFormats ==
    /\ pc = "received"
    /\ request.route = "GET /formats"
    /\ Respond(get_available_formats(PyStr(request.url), ydl))

\* GET /health
HealthCheck ==
    /\ pc = "received"
    /\ request.route = "GET /health"
    /\ \E now \in Clock :
          Respond(Handled([status |-> 200,
                           body |-> [status |-> "healthy",
                                     message |-> "YouTube Extraction API is running",
                                     timestamp |-> now]], <<>>))

\* any other route: the 404 error handler
NotFound ==
    /\ pc = "received"
    /\ request.route = "unmatched"
    /\ Respond(Handled(ErrorResponse(404, "not_found", "Endpoint no encontrado"), <<>>))

Init ==
    \/ Received(GetRequests("GET /extract", PipelineUrls), PipelineOutcomes)
    \/ Received(PostRequests, PipelineOutcomes)
    \/ Received(GetRequests("GET /formats", PipelineUrls), PipelineOutcomes)
    \/ Received({[route |-> "GET /health"], [route |-> "unmatched"]}, {RaisesOther})

Next == GetExtract \/ PostExtract \/ GetFormats \/ HealthCheck \/ NotFound

Spec == Init /\ [][Next]_vars

\* GET /extract of a valid URL, over the candidate lists: the list the
\* collaborator is going to return grows one candidate at a time before
\* the handler runs
InitSelect ==
    Received(GetRequests("GET /extract", {"youtu.be/abc-1"}),
             {Returns(PyDict(Metadata @@ ("formats" :> <<>>)))})

CollaboratorFindsFormat ==
    /\ pc = "received"
    /\ Len(ydl.info.v["formats"]) < MaxFormats
    /\ \E fmt \in Formats(Len(ydl.info.v["formats"]) + 1) :
          ydl' = Returns(PyDict([ydl.info.v EXCEPT !["formats"] = Append(@, fmt)]))
    /\ UNCHANGED <<request, pc, response, calls>>

NextSelect == CollaboratorFindsFormat \/ GetExtract

SpecSelect == InitSelect /\ [][NextSelect]_vars

\* GET /extract of a valid URL, the collaborator raising DownloadError
InitGateway ==
    Received(GetRequests("GET /extract", {ValidUrl, "youtu.be/abc-1"}),
             {Raises(m) : m \in Messages})

NextGateway == GetExtract

SpecGateway == InitGateway /\ [][NextGateway]_vars

(***************************************************************************)
(* The validator and the normaliser on their own: the input is drawn, the  *)
(* function is applied.                                                    *)
(***************************************************************************)
IdAlphabet == {"a", "Z", "9", "_", "-", "%"}

RECURSIVE IdsOfLen(_)
IdsOfLen(n) ==
    IF n = 0 THEN {""}
    ELSE {id \o c : id \in IdsOfLen(n - 1), c \in IdAlphabet}

Ids == UNION {IdsOfLen(n) : n \in 0..MaxIdLen}

ValidatorUrls ==
    {lead \o scheme \o www \o host \o id \o rest :
        lead \in {"", "x"},
        scheme \in {"", "http://", "https://", "HTTPS://", "ftp://"},
        www \in {"", "www.", "m."},
        host \in {"youtube.com/watch?v=", "youtu.be/", "youtube.com/embed/",
                  "youtube.com/v/", "youtube.com/shorts/", "YouTube.COM/Watch?V=",
                  "youtubeXcom/watch?v=", "youtube.com/watch?x=", "youtube.com",
                  "vimeo.com/", ""},
        id \in Ids,
        rest \in {"", "&t=1s"}}

InitValidator ==
    /\ request \in GetRequests("is_valid_youtube_url", ValidatorUrls)
    /\ ydl = RaisesOther
    /\ pc = "received"
    /\ response = NoResponse
    /\ calls = <<>>

Validate ==
    /\ pc = "received"
    /\ request.route = "is_valid_youtube_url"
    /\ response' = [value |-> is_valid_youtube_url(request.url)]
    /\ pc' = "responded"
    /\ UNCHANGED <<request, ydl, calls>>

NextValidator == Validate

SpecValidator == InitValidator /\ [][NextValidator]_vars

\* one more layer of percent-encoding around every "%" of s
RECURSIVE EncodePercent(_)
EncodePercent(s) ==
    IF s = "" THEN ""
    ELSE (IF CharAt(s, 1) = "%" THEN "%25" ELSE CharAt(s, 1))
            \o EncodePercent(Drop(s, 1))

RECURSIVE Encoded(_, _)
Encoded(s, layers) ==
    IF layers = 0 THEN s ELSE Encoded(EncodePercent(s), layers - 1)

NormalizerBases ==
    {"https://youtu.be/abc", "youtu.be/abc", "http://youtu.be/abc",
     "https://youtu.be/a%41", "https://youtu.be/a%2Fb", "https://youtu.be/100%",
     "https://youtu.be/%zz", "https%3A%2F%2Fyoutu.be%2Fabc", "https%3a//youtu.be/a%3f",
     "http%3A%2F%2Fyoutu.be/%25", "%68ttps://youtu.be/abc", "youtu.be/a%3Db%",
     "HTTPS://youtu.be/%61", "https://youtu.be/%e9", "ftp%3A//youtu.be/%2541"}

NormalizerUrls == {Encoded(b, k) : b \in NormalizerBases, k \in 0..MaxEncodings}

\* how many times the normaliser is applied in a row
Applications == 3

InitNormalizer ==
    /\ request \in GetRequests("clean_url", NormalizerUrls)
    /\ ydl = RaisesOther
    /\ pc = "received"
    /\ response = [values |-> <<>>]
    /\ calls = <<>>

\* clean_url applied to the input, then to its own result
Normalize ==
    /\ pc = "received"
    /\ request.route = "clean_url"
    /\ LET arg == IF response.values = <<>> THEN request.url
                  ELSE response.values[Len(response.values)]
           values == Append(response.values, clean_url(arg))
       IN /\ response' = [values |-> values]
          /\ pc' = IF Len(values) = Applications THEN "responded" ELSE "received"
    /\ UNCHANGED <<request, ydl, calls>>

NextNormalizer == Normalize

SpecNormalizer == InitNormalizer /\ [][NextNormalizer]_vars

(***************************************************************************)
(* The properties.  What they say of the candidates is written from the    *)
(* statements themselves, not with the operators of the code above.        *)
(***************************************************************************)
Responded(route) == pc = "responded" /\ request.route = route

\* the candidate list of the collaborator's answer
Candidates ==
    IF ydl.kind = "returns" /\ ydl.info.t = "dict"
    THEN GetOr(ydl.info.v, "formats", <<>>)
    ELSE <<>>

IsError(status, kind) ==
    /\ response.status = status
    /\ DOMAIN response.body = {"error", "message"}
    /\ response.body.error = kind

IsSuccessWith(video_url) ==
    /\ response.status = 200
    /\ "video_url" \in DOMAIN response.body
    /\ response.body.video_url = video_url

\* the height of a candidate is present (the key is there and holds a number)
HeightKnown(fmt) == "height" \in DOMAIN fmt /\ fmt["height"].t = "int"

\* a candidate carries a playback URL
HasUrl(fmt) == "url" \in DOMAIN fmt /\ fmt["url"].t = "str" /\ fmt["url"].v # ""

\* the Phase 1 criteria as stated: mp4, both codecs, a height that is
\* present and at most 720
StatedPhase1(fmt) ==
    /\ "ext" \in DOMAIN fmt /\ fmt["ext"] = PyStr("mp4")
    /\ Get(fmt, "vcodec") # PyStr("none")
    /\ Get(fmt, "acodec") # PyStr("none")
    /\ HeightKnown(fmt) /\ fmt["height"].v <= 720

\* the first candidate meeting the stated Phase 1 criteria, 0 if none does
StatedPhase1Index(formats) ==
    IF \E i \in 1..Len(formats) : StatedPhase1(formats[i])
    THEN CHOOSE i \in 1..Len(formats) :
            /\ StatedPhase1(formats[i])
            /\ \A j \in 1..(i - 1) : ~StatedPhase1(formats[j])
    ELSE 0

\* the stated Phase 2 pair (effectiveHeight, mp4Bonus)
StatedEffectiveHeight(fmt) ==
    IF HeightKnown(fmt) /\ fmt["height"].v <= 720 THEN fmt["height"].v ELSE 0

StatedMp4Bonus(fmt) == IF Get(fmt, "ext") = PyStr("mp4") THEN 1 ELSE 0

\* a's pair is lexicographically at least b's
StatedAtLeast(a, b) ==
    \/ StatedEffectiveHeight(a) > StatedEffectiveHeight(b)
    \/ /\ StatedEffectiveHeight(a) = StatedEffectiveHeight(b)
       /\ StatedMp4Bonus(a) >= StatedMp4Bonus(b)

\* the first candidate whose pair is maximal (the list is not empty)
StatedPhase2Index(formats) ==
    CHOOSE i \in 1..Len(formats) :
        /\ \A j \in 1..Len(formats) : StatedAtLeast(formats[i], formats[j])
        /\ \A j \in 1..(i - 1) : ~StatedAtLeast(formats[j], formats[i])

\* C1: if some candidate meets the stated Phase 1 criteria, GET /extract
\* answers 200 with the playback URL of the first such candidate (the
\* candidate carrying one).
C1_FirstPhase1MatchWins ==
    (/\ Responded("GET /extract")
     /\ StatedPhase1Index(Candidates) > 0
     /\ HasUrl(Candidates[StatedPhase1Index(Candidates)]))
    => IsSuccessWith(Candidates[StatedPhase1Index(Candidates)]["url"])

\* C2: if the list is not empty and no candidate meets the stated Phase 1
\* criteria, the selected candidate is the first one whose pair
\* (effectiveHeight, mp4Bonus) is maximal: its playback URL is the answer,
\* and the answer is no_video_url if it carries none.
C2_Phase2SelectsFirstMaximum ==
    (/\ Responded("GET /extract")
     /\ Candidates # <<>>
     /\ StatedPhase1Index(Candidates) = 0)
    => LET best == Candidates[StatedPhase2Index(Candidates)]
       IN IF HasUrl(best) THEN IsSuccessWith(best["url"])
          ELSE IsError(400, "no_video_url")

\* C3: the extraction of a valid URL having succeeded, if the list is
\* empty, or neither the stated Phase 1 nor the stated Phase 2 yields a
\* playback URL, GET /extract answers 400 no_video_url.
C3_NoPlayableFormat ==
    (/\ Responded("GET /extract")
     /\ ydl.kind = "returns" /\ Truthy(ydl.info)
     /\ \/ Candidates = <<>>
        \/ /\ \/ StatedPhase1Index(Candidates) = 0
              \/ ~HasUrl(Candidates[StatedPhase1Index(Candidates)])
           /\ ~HasUrl(Candidates[StatedPhase2Index(Candidates)]))
    => IsError(400, "no_video_url")

\* a candidate with a known height between 1 and 720
InRange(fmt) == HeightKnown(fmt) /\ fmt["height"].v >= 1 /\ fmt["height"].v <= 720

\* a candidate with a known height above 720
AboveCap(fmt) == HeightKnown(fmt) /\ fmt["height"].v > 720

\* C10: when some candidate has a known height between 1 and 720, a 200
\* answer of GET /extract never carries the playback URL of a candidate
\* whose height is above 720.
C10_CapAt720 ==
    (/\ Responded("GET /extract")
     /\ response.status = 200
     /\ \E i \in 1..Len(Candidates) : InRange(Candidates[i]))
    => \A i \in 1..Len(Candidates) :
          (HasUrl(Candidates[i]) /\ Candidates[i]["url"] = response.body.video_url)
          => ~AboveCap(Candidates[i])

\* C10's case: the second phase selected, with a candidate above 720 that
\* carries a URL listed before one within the cap.
C10_Witness ==
    /\ Responded("GET /extract")
    /\ response.status = 200
    /\ Len(Candidates) >= 2
    /\ AboveCap(Candidates[1]) /\ HasUrl(Candidates[1])
    /\ \E i \in 2..Len(Candidates) : InRange(Candidates[i])
    /\ \A i \in 1..Len(Candidates) : ~StatedPhase1(Candidates[i])

\* the three markers of a DownloadError message
Unavailable == Contains(ydl.msg, "Video unavailable")
AgeGate == Contains(ydl.msg, "Sign in to confirm your age")
Private == Contains(ydl.msg, "Private video")

\* C4 as stated: each marker decides the answer by itself.
C4_EachMarkerDecides ==
    (Responded("GET /extract") /\ ydl.kind = "DownloadError")
    => /\ Private => IsError(403, "private_video")
       /\ Unavailable => IsError(404, "video_unavailable")
       /\ AgeGate => IsError(403, "age_restricted")
       /\ (~Private /\ ~Unavailable /\ ~AgeGate) => IsError(500, "extraction_error")

\* C4, amended: the markers are tried in the order "Video unavailable",
\* "Sign in to confirm your age", "Private video", and the first one the
\* message contains decides; a message with none is extraction_error / 500.
C4_FirstMarkerInOrderDecides ==
    (Responded("GET /extract") /\ ydl.kind = "DownloadError")
    => /\ Unavailable => IsError(404, "video_unavailable")
       /\ (~Unavailable /\ AgeGate) => IsError(403, "age_restricted")
       /\ (~Unavailable /\ ~AgeGate /\ Private) => IsError(403, "private_video")
       /\ (~Private /\ ~Unavailable /\ ~AgeGate) => IsError(500, "extraction_error")

\* C4's case: a message with both "Private video" and "Video unavailable"
C4_Witness ==
    /\ Responded("GET /extract")
    /\ ydl.kind = "DownloadError"
    /\ Private /\ Unavailable
    /\ IsError(404, "video_unavailable")

\* the URL a request carries, None if it carries none
RequestUrl ==
    CASE request.route \in {"GET /extract", "GET /formats"} -> PyStr(request.url)
      [] request.route = "POST /extract" ->
           IF /\ request.body.kind = "json"
              /\ request.body.value.t = "dict"
              /\ "url" \in DOMAIN request.body.value.v
           THEN request.body.value.v["url"]
           ELSE PyNone
      [] OTHER -> PyNone

\* the request's URL is one the validator rejects once normalised
Rejected ==
    RequestUrl.t = "str" /\ ~is_valid_youtube_url(clean_url(RequestUrl.v))

Called(component) == \E i \in 1..Len(calls) : calls[i] = component

\* C5: on the three routes a rejected URL is answered 400 invalid_url
\* without the collaborator being invoked; the collaborator is invoked only
\* after the normaliser and then the validator, on a URL that validates;
\* the selector runs only after an extraction that returned an info.
C5_FailFast ==
    (pc = "responded"
     /\ request.route \in {"GET /extract", "POST /extract", "GET /formats"})
    => /\ Rejected => (IsError(400, "invalid_url") /\ ~Called("extract_info"))
       /\ Called("extract_info") =>
            /\ SubSeq(calls, 1, 3) = <<"clean_url", "is_valid_youtube_url", "extract_info">>
            /\ RequestUrl.t = "str"
            /\ is_valid_youtube_url(clean_url(RequestUrl.v))
       /\ Called("select") =>
            /\ Len(calls) >= 4 /\ calls[3] = "extract_info" /\ calls[4] = "select"
            /\ ydl.kind = "returns" /\ Truthy(ydl.info)
            /\ request.route # "GET /formats"

\* C5's case: a URL the validator accepts as sent and rejects once
\* normalised, answered without the collaborator
C5_Witness ==
    /\ Responded("GET /formats")
    /\ is_valid_youtube_url(request.url)
    /\ Rejected
    /\ IsError(400, "invalid_url")
    /\ calls = <<"clean_url", "is_valid_youtube_url">>

\* the five accepted shapes
Shapes ==
    {"youtube.com/watch?v=", "youtu.be/", "youtube.com/embed/", "youtube.com/v/",
     "youtube.com/shorts/"}

StartsWithIgnoringCase(s, prefix) ==
    /\ Len(s) >= Len(prefix)
    /\ \A i \in 1..Len(prefix) : LowerChar(CharAt(s, i)) = CharAt(prefix, i)

Accepted(s) ==
    \E scheme \in {"", "http://", "https://"}, www \in {"", "www."}, shape \in Shapes :
        LET prefix == scheme \o www \o shape
        IN /\ StartsWithIgnoringCase(s, prefix)
           /\ Len(s) > Len(prefix)
           /\ \/ CharAt(s, Len(prefix) + 1) \in WordChars
              \/ CharAt(s, Len(prefix) + 1) = "-"

\* C6: the validator accepts exactly the strings that start, ignoring
\* case, with an optional scheme, an optional "www.", one of the five
\* shapes and at least one id character (a word character or "-"),
\* whatever follows; it rejects every other string.
C6_ValidatorAcceptsExactlyTheShapes ==
    Responded("is_valid_youtube_url") => (response.value = Accepted(request.url))

\* C6's case: an accepted URL in upper case, without "www.", with a tail
C6_Witness ==
    /\ Responded("is_valid_youtube_url")
    /\ request.url = "HTTPS://youtube.com/shorts/a&t=1s"
    /\ response.value = TRUE

\* the request has no body, or a JSON body without a "url" key
BodyLacksUrl ==
    \/ request.body.kind = "absent"
    \/ ~(request.body.value.t = "dict" /\ "url" \in DOMAIN request.body.value.v)

\* C7: without a body, or with a JSON body that has no "url" key, POST
\* /extract answers 400 missing_url and runs neither the normaliser, the
\* validator nor the collaborator; with a url it answers as GET /extract
\* does for that url.
C7_MissingUrl ==
    Responded("POST /extract")
    => IF BodyLacksUrl
       THEN IsError(400, "missing_url") /\ calls = <<>>
       ELSE response = extract_video_info(RequestUrl, ydl).response

\* the metadata keys of a 200 answer
SuccessKeys ==
    {"video_url", "title", "duration", "thumbnail", "uploader", "view_count",
     "upload_date", "description", "original_url"}

\* C8: an answer of GET or POST /extract is a 200 holding the metadata, the
\* normalised URL and the non-empty playback URL of one of the candidates,
\* or an error holding a kind and a message and nothing else.
C8_NoPartialResults ==
    (pc = "responded" /\ request.route \in {"GET /extract", "POST /extract"})
    => IF response.status = 200
       THEN /\ DOMAIN response.body = SuccessKeys
            /\ response.body.video_url.t = "str"
            /\ response.body.video_url.v # ""
            /\ \E i \in 1..Len(Candidates) :
                  HasUrl(Candidates[i]) /\ Candidates[i]["url"] = response.body.video_url
            /\ RequestUrl.t = "str"
            /\ response.body.original_url = PyStr(clean_url(RequestUrl.v))
       ELSE /\ DOMAIN response.body = {"error", "message"}
            /\ response.status \in {400, 403, 404, 500}

\* C8's case: a 200 answer of POST /extract whose URL needed normalising
C8_Witness ==
    /\ Responded("POST /extract")
    /\ response.status = 200
    /\ response.body.original_url # RequestUrl
    /\ Len(Candidates) >= 1

\* a percent escape somewhere in s
HasEscape(s) == \E i \in 1..Len(s) : EscapeAtHead(Drop(s, i - 1))

\* u = response.values[1] is a normalised URL (a result of the normaliser)
\* that starts with "https://"; values[2] is normalize(u) and values[3] is
\* normalize(normalize(u)).
NormalizedHttps ==
    /\ Responded("clean_url")
    /\ Len(response.values) >= 3
    /\ StartsWith(response.values[1], "https://")

\* C9 as stated: the normaliser is idempotent on every such u.
C9_Idempotent == NormalizedHttps => response.values[3] = response.values[2]

\* C9, amended: it is idempotent on every such u whose normalisation
\* holds no percent escape (a "%" followed by two hex digits) any more.
C9_IdempotentOnceDecoded ==
    (NormalizedHttps /\ ~HasEscape(response.values[2]))
    => response.values[3] = response.values[2]

\* C9's case: u held an escape, its normalisation holds a "%" but no escape
C9_Witness ==
    /\ NormalizedHttps
    /\ HasEscape(response.values[1])
    /\ ~HasEscape(response.values[2])
    /\ Contains(response.values[2], "%")

====
